---- MODULE Spec2Model ----
(***************************************************************************)
(* Model of the daily digest use case of tg-nhl-agent                      *)
(* (src/src/tg_nhl_agent/usecase.py): run_daily_digest and the helpers it  *)
(* calls, run against the collaborator ports (results loader, rules        *)
(* loader, video loader, publisher, publication registry).                 *)
(*                                                                         *)
(* Units.  Instants are minutes since the epoch (UTC).  Scores and weights *)
(* are thousandths (1.5 is 1500, the 0.2 bonus is 200).                    *)
(* A rendered text is the sequence of its lines.                            *)
(***************************************************************************)
EXTENDS Integers, Sequences, FiniteSets, TLC

VARIABLES
    store,          \* InMemoryPublicationRegistry._store: run date -> record
    pc,             \* position of each execution of run_daily_digest
    frame,          \* the local variables of each execution
    calls,          \* the collaborator calls of each execution, in order
    publishCalls,   \* per run date: publisher.publish invocations so far
    publishOk,      \* per run date: publish invocations that returned no error
    runNo,          \* per execution: its ordinal among the runs of its date
    started,        \* per run date: executions started so far
    overlapped,     \* per run date: an execution started while another was in progress
    eval            \* a helper called on its own: its name, arguments and value

vars == <<store, pc, frame, calls, publishCalls, publishOk, runNo, started, overlapped,
          eval>>

\* None, for an optional string (a message id, a URL, an abbreviation).
None == "None"

\* None, for an optional object (a record, a post, an embedded error).
Nil == [none |-> TRUE]

\* An optional instant: <<>> is None, <<t>> is the instant t.
NoInstant == <<>>

\* The executions that may be in flight (two, so that they can interleave).
Procs == {1, 2}

\* Executions started in one behaviour.
MaxRuns == 3

-----------------------------------------------------------------------------
(* contracts.py: enums and value objects *)

WARNING == "warning"
ERROR == "error"

NHL == "nhl"
VK == "vk"
TG == "tg"
STORAGE == "storage"
CORE == "core"

HIGHLIGHTS == "highlights"
FULL == "full"

FOUND == "found"
NOT_FOUND == "not_found"
VERROR == "error"

AppError(code, source, severity, message) ==
    [code |-> code, source |-> source, severity |-> severity, message |-> message]

Team(team_id, name, abbr) == [team_id |-> team_id, name |-> name, abbr |-> abbr]

PostPublic(run_date_msk, generated_at_utc, items, errors) ==
    [run_date_msk |-> run_date_msk, generated_at_utc |-> generated_at_utc,
     items |-> items, errors |-> errors]

PublicationRecord(run_date_msk, published, tg_message_id, published_at_utc) ==
    [run_date_msk |-> run_date_msk, published |-> published,
     tg_message_id |-> tg_message_id, published_at_utc |-> published_at_utc]

VideoLinkResult(match_id, kind, status, url, error) ==
    [match_id |-> match_id, kind |-> kind, status |-> status, url |-> url,
     error |-> error]

\* UsecaseConfig and its defaults.
UsecaseConfig(min_interest_score) ==
    [tz_msk |-> "Europe/Moscow", publish_hour_msk |-> 8, lookback_hours |-> 48,
     min_interest_score |-> min_interest_score]

-----------------------------------------------------------------------------
(* Sequence helpers *)

Range(s) == {s[i] : i \in 1..Len(s)}

Count(s, Test(_)) == Cardinality({i \in 1..Len(s) : Test(s[i])})

IsPrefix(s, t) == Len(s) <= Len(t) /\ SubSeq(t, 1, Len(s)) = s

-----------------------------------------------------------------------------
(* Helpers: time window *)

\* ZoneInfo(tz).utcoffset, in minutes.  Europe/Moscow is UTC+3 all year.
\* America/New_York is UTC-5 (EST) in winter; other zones are UTC.
UtcOffset(tz) ==
    IF tz = "Europe/Moscow" THEN 3 * 60
    ELSE IF tz = "America/New_York" THEN -(5 * 60) ELSE 0

\* The instant America/New_York first moves to daylight time (UTC-4):
\* 1970-04-26 07:00 UTC, when the local clock goes from 02:00 to 03:00.
NewYorkDstStart == 115 * 24 * 60 + 7 * 60

\* ZoneInfo(tz).utcoffset of an absolute instant (astimezone(tz)).
UtcOffsetAt(tz, utc) ==
    IF tz = "America/New_York" /\ utc >= NewYorkDstStart
    THEN UtcOffset(tz) + 60 ELSE UtcOffset(tz)

\* ZoneInfo(tz).utcoffset of a local wall-clock time (fold=0): a wall time in
\* the skipped hour has the offset of before the change.
WallOffset(tz, wall) ==
    IF tz = "America/New_York" /\ wall >= NewYorkDstStart + UtcOffset(tz) + 60
    THEN UtcOffset(tz) + 60 ELSE UtcOffset(tz)

\* compute_window with the anchor moved back also at the publish hour itself
\* (`if now_msk <= anchor_msk`).
compute_windowAtOrBefore(now_utc, cfg) ==
    LET now_msk == now_utc + UtcOffsetAt(cfg.tz_msk, now_utc)
        day == now_msk \div (24 * 60)
        anchor0 == day * 24 * 60 + cfg.publish_hour_msk * 60
        anchor_msk == IF now_msk <= anchor0 THEN anchor0 - 24 * 60 ELSE anchor0
        window_start_msk == anchor_msk - cfg.lookback_hours * 60
    IN  [run_date_msk |-> anchor_msk \div (24 * 60),
         window_start_utc |-> window_start_msk - WallOffset(cfg.tz_msk, window_start_msk),
         window_end_utc |-> anchor_msk - WallOffset(cfg.tz_msk, anchor_msk)]

\* compute_window: the run date (a day number of the local calendar) and the
\* window, as UTC instants.  now_msk, the anchor and the window start are
\* wall-clock times of the zone: replace() and `- timedelta` work on the wall
\* clock, and astimezone(timezone.utc) takes the offset of each wall time.
compute_window(now_utc, cfg) ==
    LET now_msk == now_utc + UtcOffsetAt(cfg.tz_msk, now_utc)
        day == now_msk \div (24 * 60)
        anchor0 == day * 24 * 60 + cfg.publish_hour_msk * 60
        anchor_msk == IF now_msk < anchor0 THEN anchor0 - 24 * 60 ELSE anchor0
        window_start_msk == anchor_msk - cfg.lookback_hours * 60
    IN  [run_date_msk |-> anchor_msk \div (24 * 60),
         window_start_utc |-> window_start_msk - WallOffset(cfg.tz_msk, window_start_msk),
         window_end_utc |-> anchor_msk - WallOffset(cfg.tz_msk, anchor_msk)]

-----------------------------------------------------------------------------
(* Core: scoring and ranking *)

\* (r.entity_type or "").strip().lower()
NormalizeEntityType(et) ==
    CASE et \in {"player", "Player", " player "} -> "player"
      [] et \in {"team", "Team", " team "} -> "team"
      [] et = None -> ""
      [] OTHER -> et

\* A rule's weight as the rules loader supplied it: a float, or a string.
FloatWeight(v) == [float |-> v]
TextWeight(t) == [text |-> t]

\* The strings that are the text of a number, and the number.
ParsedFloat == [t \in {"1.5"} |-> 1500]

\* float(w) raises ValueError: w is a string that is not the text of a number.
FloatRaises(w) == "text" \in DOMAIN w /\ w.text \notin DOMAIN ParsedFloat

\* float(w), when it does not raise: a float is itself, "1.5" is 1.5.
float(w) == IF "float" \in DOMAIN w THEN w.float ELSE ParsedFloat[w.text]

RECURSIVE SumWeights(_, _, _)
\* The sum of the weights of the rules of one kind for one entity.
SumWeights(rules, kind, id) ==
    IF rules = <<>> THEN 0
    ELSE LET r == Head(rules)
         IN  (IF NormalizeEntityType(r.entity_type) = kind /\ r.entity_id = id
              THEN float(r.weight) ELSE 0) + SumWeights(Tail(rules), kind, id)

\* One of the two dictionaries _index_rules builds.
WeightDict(rules, kind) ==
    LET ids == {rules[i].entity_id : i \in
                  {j \in 1..Len(rules) : NormalizeEntityType(rules[j].entity_type) = kind}}
    IN  [id \in ids |-> SumWeights(rules, kind, id)]

\* _index_rules does not return: float(r.weight) raises for a rule of a known
\* kind (the weight of a rule of another kind is not converted).
IndexRaises(rules) ==
    \E i \in 1..Len(rules) :
        /\ NormalizeEntityType(rules[i].entity_type) \in {"player", "team"}
        /\ FloatRaises(rules[i].weight)

\* What a call that raises leaves instead of a value.
Raised == [raised |-> "ValueError"]

_index_rules(rules) ==
    [player_w |-> WeightDict(rules, "player"), team_w |-> WeightDict(rules, "team")]

\* `w = d.get(k)` followed by `if w:` -- the key is present and its weight is
\* not 0.0 (None and 0.0 are both false).
HasWeight(d, k) == k \in DOMAIN d /\ d[k] # 0

ScoreContribution(reason, weight, entity_type, entity_id) ==
    [reason |-> reason, weight |-> weight, entity_type |-> entity_type,
     entity_id |-> entity_id]

\* The team-weight contributions of a match: home, then away.
TeamContribs(m, team_w) ==
    LET One(t) == IF HasWeight(team_w, t.team_id)
                  THEN <<ScoreContribution("team_weight", team_w[t.team_id], "team",
                                           t.team_id)>>
                  ELSE <<>>
    IN  One(m.home) \o One(m.away)

RECURSIVE PlayerContribs(_, _, _)
\* The player-weight contributions of a match, in the order of the stat rows.
PlayerContribs(m, player_stats, player_w) ==
    IF player_stats = <<>> THEN <<>>
    ELSE LET ps == Head(player_stats)
             w == player_w[ps.player_id]
             delta == (w * (2 * ps.goals + ps.assists)) \div 2
             here == IF /\ ps.match_id = m.match_id
                        /\ HasWeight(player_w, ps.player_id)
                        /\ delta # 0
                     THEN <<ScoreContribution("player_weight", delta, "player",
                                              ps.player_id)>>
                     ELSE <<>>
         IN  here \o PlayerContribs(m, Tail(player_stats), player_w)

\* TotalGoalsBonus without the cap (total_goals / 10.0 * 0.2).
TotalGoalsBonusUncapped(m) == (m.score_home + m.score_away) * 20

\* min(1.0, total_goals / 10.0) * 0.2
TotalGoalsBonus(m) ==
    LET total_goals == m.score_home + m.score_away
    IN  IF total_goals >= 10 THEN 200 ELSE total_goals * 20

\* BonusContribs of a loop that adds the shootout bonus to the score without
\* recording it.
BonusContribsNoShootout(m) ==
    (IF m.went_overtime = TRUE
     THEN <<ScoreContribution("overtime_bonus", 200, None, None)>> ELSE <<>>)
    \o (IF TotalGoalsBonus(m) # 0
        THEN <<ScoreContribution("total_goals_bonus", TotalGoalsBonus(m), None, None)>>
        ELSE <<>>)

\* The contributions appended for the bonuses: overtime, shootout, total goals.
BonusContribs(m) ==
    (IF m.went_overtime = TRUE
     THEN <<ScoreContribution("overtime_bonus", 200, None, None)>> ELSE <<>>)
    \o (IF m.went_shootout = TRUE
        THEN <<ScoreContribution("shootout_bonus", 200, None, None)>> ELSE <<>>)
    \o (IF TotalGoalsBonus(m) # 0
        THEN <<ScoreContribution("total_goals_bonus", TotalGoalsBonus(m), None, None)>>
        ELSE <<>>)

RECURSIVE SumContribs(_)
SumContribs(cs) == IF cs = <<>> THEN 0 ELSE Head(cs).weight + SumContribs(Tail(cs))

\* `score += w` over (m.home, m.away).
TeamScore(m, team_w) ==
    LET One(t) == IF HasWeight(team_w, t.team_id) THEN team_w[t.team_id] ELSE 0
    IN  One(m.home) + One(m.away)

RECURSIVE PlayerScore(_, _, _)
\* `score += delta` over the stat rows of the match.
PlayerScore(m, player_stats, player_w) ==
    IF player_stats = <<>> THEN 0
    ELSE LET ps == Head(player_stats)
             here == IF ps.match_id = m.match_id /\ HasWeight(player_w, ps.player_id)
                     THEN (player_w[ps.player_id] * (2 * ps.goals + ps.assists)) \div 2
                     ELSE 0
         IN  here + PlayerScore(m, Tail(player_stats), player_w)

\* `score += 0.2` for overtime, for a shootout, and `score += tg_bonus`.
BonusScore(m) ==
    (IF m.went_overtime = TRUE THEN 200 ELSE 0)
    + (IF m.went_shootout = TRUE THEN 200 ELSE 0)
    + TotalGoalsBonus(m)

\* The body of the loop over the matches: one RankedMatch, of the score and
\* the contributions the loop accumulates side by side.
ScoreOne(m, player_stats, idx) ==
    LET contribs == TeamContribs(m, idx.team_w)
                    \o PlayerContribs(m, player_stats, idx.player_w)
                    \o BonusContribs(m)
        score == TeamScore(m, idx.team_w)
                 + PlayerScore(m, player_stats, idx.player_w)
                 + BonusScore(m)
    IN  [match |-> m,
         rank |-> [match_id |-> m.match_id, score |-> score, contributions |-> contribs]]

RECURSIVE InsertDescBeforeTies(_, _)
\* InsertDesc of a sort that is not stable: rm goes before the elements of its score.
InsertDescBeforeTies(sorted, rm) ==
    IF sorted = <<>> THEN <<rm>>
    ELSE IF Head(sorted).rank.score > rm.rank.score
         THEN <<Head(sorted)>> \o InsertDescBeforeTies(Tail(sorted), rm)
         ELSE <<rm>> \o sorted

RECURSIVE InsertDesc(_, _)
\* rm placed after every element whose score is >= its own.
InsertDesc(sorted, rm) ==
    IF sorted = <<>> THEN <<rm>>
    ELSE IF Head(sorted).rank.score >= rm.rank.score
         THEN <<Head(sorted)>> \o InsertDesc(Tail(sorted), rm)
         ELSE <<rm>> \o sorted

RECURSIVE SortByScoreDesc(_, _)
\* list.sort(key=score, reverse=True): descending, equal scores keep their order.
SortByScoreDesc(acc, rest) ==
    IF rest = <<>> THEN acc
    ELSE SortByScoreDesc(InsertDesc(acc, Head(rest)), Tail(rest))

score_matches(matches, player_stats, rules) ==
    LET idx == _index_rules(rules)
        ranked == [i \in 1..Len(matches) |-> ScoreOne(matches[i], player_stats, idx)]
    IN  IF IndexRaises(rules) THEN Raised ELSE SortByScoreDesc(<<>>, ranked)

-----------------------------------------------------------------------------
(* Core: videos -> public post items *)

\* `x or y` on optional strings
Or(x, y) == IF x # None /\ x # "" THEN x ELSE y

_match_title(m) == Or(m.home.abbr, m.home.name) \o " - " \o Or(m.away.abbr, m.away.name)

RECURSIVE VmapGetAnyKind(_, _, _)
\* VmapGet on an index keyed by the match alone: the last result for the match.
VmapGetAnyKind(video_results, match_id, kind) ==
    IF video_results = <<>> THEN Nil
    ELSE LET n == Len(video_results)
             vr == video_results[n]
         IN  IF vr.match_id = match_id THEN vr
             ELSE VmapGetAnyKind(SubSeq(video_results, 1, n - 1), match_id, kind)

RECURSIVE VmapGet(_, _, _)
\* vmap.get(match_id, {}).get(kind): the last result for the match and kind.
VmapGet(video_results, match_id, kind) ==
    IF video_results = <<>> THEN Nil
    ELSE LET n == Len(video_results)
             vr == video_results[n]
         IN  IF vr.match_id = match_id /\ vr.kind = kind THEN vr
             ELSE VmapGet(SubSeq(video_results, 1, n - 1), match_id, kind)

\* h.url if (h and h.status == FOUND) else None
ResolveUrl(vr) == IF vr # Nil /\ vr.status = FOUND THEN vr.url ELSE None

\* The errors the loop over (h, f) appends for one match.
VideoErrors(h, f) ==
    LET One(vr) == IF vr # Nil /\ vr.status = VERROR /\ vr.error # Nil
                   THEN <<vr.error>> ELSE <<>>
    IN  One(h) \o One(f)

PostItemPublic(rm, h, f) ==
    [match_id |-> rm.match.match_id, title |-> _match_title(rm.match),
     start_time_utc |-> rm.match.start_time_utc,
     highlights_url |-> ResolveUrl(h), full_url |-> ResolveUrl(f),
     rank_score |-> rm.rank.score]

\* BelowThreshold with the comparison made inclusive (`<=`).
BelowThresholdInclusive(rm, cfg) == rm.rank.score <= cfg.min_interest_score

\* Lines 292-293: `if rm.rank.score < cfg.min_interest_score: continue`
BelowThreshold(rm, cfg) == rm.rank.score < cfg.min_interest_score

RECURSIVE BuildLoop(_, _, _, _, _)
\* The loop over ranked: the items and the error list it leaves.
BuildLoop(ranked, video_results, cfg, items, errors) ==
    IF ranked = <<>> THEN [items |-> items, errors |-> errors]
    ELSE LET rm == Head(ranked)
             h == VmapGet(video_results, rm.match.match_id, HIGHLIGHTS)
             f == VmapGet(video_results, rm.match.match_id, FULL)
         IN  IF BelowThreshold(rm, cfg)
             THEN BuildLoop(Tail(ranked), video_results, cfg, items, errors)
             ELSE BuildLoop(Tail(ranked), video_results, cfg,
                            Append(items, PostItemPublic(rm, h, f)),
                            errors \o VideoErrors(h, f))

build_post_public(run_date_msk, now_utc, ranked, video_results, cfg, extra_errors) ==
    LET r == BuildLoop(ranked, video_results, cfg, <<>>, extra_errors)
    IN  PostPublic(run_date_msk, now_utc, r.items, r.errors)

-----------------------------------------------------------------------------
(* Render (public text): the text is the sequence of its lines *)

NoMatchesLine == "Matchey net."
ProblemsHeader == "Problemy:"
NotFoundMark == "ssylka ne naydena"

\* ItemLines with the rank score shown next to the title.
ItemLinesWithScore(it) ==
    << it.title \o " (" \o ToString(it.rank_score) \o ")",
       "  highlights: " \o Or(it.highlights_url, NotFoundMark),
       "  full: " \o Or(it.full_url, NotFoundMark),
       "" >>

ItemLines(it) ==
    << it.title,
       "  highlights: " \o Or(it.highlights_url, NotFoundMark),
       "  full: " \o Or(it.full_url, NotFoundMark),
       "" >>

RECURSIVE ItemsLines(_)
ItemsLines(items) ==
    IF items = <<>> THEN <<>> ELSE ItemLines(Head(items)) \o ItemsLines(Tail(items))

\* ErrorKey with the severity in the key.
ErrorKeyWithSeverity(e) == <<e.code, e.source, e.message, e.severity>>

\* The deduplication key of an error line.
ErrorKey(e) == <<e.code, e.source, e.message>>

ErrorLine(e) == "- [" \o e.source \o "] " \o e.code \o ": " \o e.message

\* ErrorLines that stops after the first error.
ErrorLinesFirstOnly(errors, seen) ==
    IF errors = <<>> THEN <<>> ELSE <<ErrorLine(Head(errors))>>

RECURSIVE ErrorLines(_, _)
\* One line per error whose key was not seen before.
ErrorLines(errors, seen) ==
    IF errors = <<>> THEN <<>>
    ELSE LET e == Head(errors)
         IN  IF ErrorKey(e) \in seen THEN ErrorLines(Tail(errors), seen)
             ELSE <<ErrorLine(e)>> \o ErrorLines(Tail(errors), seen \cup {ErrorKey(e)})

RECURSIVE Strip(_)
\* "\n".join(lines).strip(): leading and trailing blank lines disappear.
Strip(lines) ==
    IF lines = <<>> THEN <<>>
    ELSE IF Head(lines) = "" THEN Strip(Tail(lines))
    ELSE IF lines[Len(lines)] = "" THEN Strip(SubSeq(lines, 1, Len(lines) - 1))
    ELSE lines

render_post(post) ==
    Strip((IF post.items = <<>> THEN <<NoMatchesLine>> ELSE ItemsLines(post.items))
          \o (IF post.errors # <<>>
              THEN <<ProblemsHeader>> \o ErrorLines(post.errors, {})
              ELSE <<>>))

-----------------------------------------------------------------------------
(* The collaborators: what the ports may return *)

\* The instant at which the Moscow wall clock shows hh:mm on local day `day`.
MskInstant(day, hh, mm) == day * 24 * 60 + hh * 60 + mm - UtcOffset("Europe/Moscow")

\* Reference instants: just before and at the publish hour, and the next morning.
Nows == {MskInstant(1, 7, 59), MskInstant(1, 8, 0), MskInstant(2, 7, 59)}

Cfgs == {UsecaseConfig(0), UsecaseConfig(60), UsecaseConfig(1000)}

\* The run dates the reference instants lead to.
Keys == {compute_window(n, c).run_date_msk : n \in Nows, c \in Cfgs}

ErrRegistryGet == AppError("REGISTRY_READ", STORAGE, WARNING, "registry read degraded")
ErrRegistrySet == AppError("REGISTRY_WRITE", STORAGE, WARNING, "registry write degraded")
ErrRegistryDown == AppError("REGISTRY_DOWN", STORAGE, ERROR, "registry unavailable")
ErrResults == AppError("NHL_TIMEOUT", NHL, ERROR, "results timed out")
ErrRules == AppError("RULES_INVALID", STORAGE, WARNING, "rules table incomplete")
ErrVideo == AppError("VK_AUTH", VK, ERROR, "video search failed")
ErrVideoLink == AppError("VK_LOOKUP", VK, WARNING, "video lookup failed")
ErrPublish == AppError("TG_SEND", TG, ERROR, "message not sent")

\* An error list a collaborator may return next to its result.
MaybeError(e) == {<<>>, <<e>>}

\* MockResultsLoader: the two matches and their player rows.
MockMatch1(window_end_utc) ==
    [match_id |-> "m1", start_time_utc |-> window_end_utc - 6 * 60,
     season |-> "2025-2026",
     home |-> Team("BOS", "Boston Bruins", "BOS"),
     away |-> Team("NYR", "New York Rangers", "NYR"),
     score_home |-> 4, score_away |-> 3,
     went_overtime |-> TRUE, went_shootout |-> FALSE]

MockMatch2(window_end_utc) ==
    [match_id |-> "m2", start_time_utc |-> window_end_utc - 20 * 60,
     season |-> "2025-2026",
     home |-> Team("TOR", "Toronto Maple Leafs", "TOR"),
     away |-> Team("MTL", "Montreal Canadiens", "MTL"),
     score_home |-> 2, score_away |-> 1,
     went_overtime |-> FALSE, went_shootout |-> FALSE]

PlayerGameStats(match_id, player_id, player_name, team_id, goals, assists) ==
    [match_id |-> match_id, player_id |-> player_id, player_name |-> player_name,
     team_id |-> team_id, goals |-> goals, assists |-> assists]

MockStats ==
    << PlayerGameStats("m1", "p_1", "Star Player", "BOS", 2, 1),
       PlayerGameStats("m2", "p_2", "Other Player", "TOR", 1, 0) >>

\* ResultsLoader.load: no match, the mock's two matches, or the quiet one alone.
ResultsOutcomes(window_start_utc, window_end_utc, errs) ==
    { [matches |-> ms, player_stats |-> MockStats, errors |-> e] :
        ms \in { <<>>,
                 <<MockMatch1(window_end_utc), MockMatch2(window_end_utc)>>,
                 <<MockMatch2(window_end_utc)>> },
        e \in errs }

ScoringRule(entity_type, entity_id, weight, label) ==
    [entity_type |-> entity_type, entity_id |-> entity_id, weight |-> weight,
     label |-> label]

\* MockScoringRulesLoader
MockRules ==
    << ScoringRule("team", "BOS", FloatWeight(1500), "favorite team"),
       ScoringRule("player", "p_1", FloatWeight(2000), "favorite player") >>

\* ScoringRulesLoader.load
RulesOutcomes(errs) == { [rules |-> MockRules, errors |-> e] : e \in errs }

MockUrl(mid, kind) == "https://vk.example/" \o mid \o "/" \o kind

RECURSIVE MockVideoResults(_)
\* MockVideoLoader: highlights found, full recording not found.
MockVideoResults(match_ids) ==
    IF match_ids = <<>> THEN <<>>
    ELSE LET mid == Head(match_ids)
         IN  << VideoLinkResult(mid, HIGHLIGHTS, FOUND, MockUrl(mid, HIGHLIGHTS), Nil),
                VideoLinkResult(mid, FULL, NOT_FOUND, None, Nil) >>
             \o MockVideoResults(Tail(match_ids))

RECURSIVE FailingVideoResults(_)
\* A video loader whose highlights lookup fails with an embedded error.
FailingVideoResults(match_ids) ==
    IF match_ids = <<>> THEN <<>>
    ELSE LET mid == Head(match_ids)
         IN  << VideoLinkResult(mid, HIGHLIGHTS, VERROR, None, ErrVideoLink),
                VideoLinkResult(mid, FULL, FOUND, MockUrl(mid, FULL), Nil) >>
             \o FailingVideoResults(Tail(match_ids))

\* VideoLoader.load_for_matches
VideoOutcomes(match_ids, errs) ==
    { [video_res |-> v, errors |-> e] :
        v \in {MockVideoResults(match_ids), FailingVideoResults(match_ids)},
        e \in errs }

\* Publisher.publish: the message id of a sent message, or None and an error.
PublishOutcomes ==
    { [msg_id |-> "mock_message_id", errors |-> <<>>],
      [msg_id |-> None, errors |-> <<ErrPublish>>] }

\* A publish call succeeded when it reported no error.
PublishSucceeded(out) == out.errors = <<>>

-----------------------------------------------------------------------------
(* Use-case orchestration: run_daily_digest, one action per collaborator call *)

\* The locals of an execution that has not started.
IdleFrame ==
    [now_utc |-> 0, cfg |-> UsecaseConfig(0), run_date_msk |-> 0,
     window_start_utc |-> 0, window_end_utc |-> 0,
     errors |-> <<>>, rec |-> Nil,
     matches |-> <<>>, player_stats |-> <<>>, rules |-> <<>>, ranked |-> <<>>,
     video_res |-> <<>>, post |-> Nil, shared |-> FALSE, text |-> <<>>,
     msg_id |-> None, ret |-> Nil]

\* ExtendErrors as it would be had the post copied the list (errors=list(errors)).
ExtendErrorsCopied(f, more) == [f EXCEPT !.errors = @ \o more]

\* errors.extend(more).  When post.errors is the very list object `errors`
\* (PostPublic(..., errors=errors) keeps the reference), the post sees it too.
ExtendErrors(f, more) ==
    [f EXCEPT !.errors = @ \o more,
              !.post = IF f.post # Nil /\ f.shared
                       THEN [f.post EXCEPT !.errors = @ \o more] ELSE @]

\* AlreadyPublished raised as an error of the registry instead of a core warning.
AlreadyPublishedAsError(run_date_msk, rec) ==
    AppError("ALREADY_PUBLISHED", STORAGE, ERROR,
             "Post za " \o ToString(run_date_msk) \o " uzhe byl opublikovan (tg_message_id="
             \o rec.tg_message_id \o ").")

\* Lines 412-422: the warning of the idempotency gate.
AlreadyPublished(run_date_msk, rec) ==
    AppError("ALREADY_PUBLISHED", CORE, WARNING,
             "Post za " \o ToString(run_date_msk) \o " uzhe byl opublikovan (tg_message_id="
             \o rec.tg_message_id \o ").")

\* AlreadyGate with the flag test inverted (`if rec and not rec.published`).
AlreadyGateInverted(rec) == rec # Nil /\ ~rec.published

\* `if rec and rec.published`
AlreadyGate(rec) == rec # Nil /\ rec.published

\* An entry of the call log: the port method, its argument, the errors it returned.
Call(op, arg, errs) == [op |-> op, arg |-> arg, errs |-> errs]

\* An execution between its call and its return value.
InProgress(q) == pc[q] \notin {"idle", "done"}

TotalStarted == LET RECURSIVE Sum(_)
                    Sum(S) == IF S = {} THEN 0
                              ELSE LET k == CHOOSE x \in S : TRUE
                                   IN  started[k] + Sum(S \ {k})
                IN  Sum(Keys)

\* The call: compute_window, then the locals are fresh.
Start(p, nows, cfgs) ==
    /\ pc[p] = "idle"
    /\ TotalStarted < MaxRuns
    /\ \E now_utc \in nows, cfg \in cfgs :
         LET w == compute_window(now_utc, cfg)
         IN  /\ frame' = [frame EXCEPT ![p] =
                    [IdleFrame EXCEPT !.now_utc = now_utc, !.cfg = cfg,
                                      !.run_date_msk = w.run_date_msk,
                                      !.window_start_utc = w.window_start_utc,
                                      !.window_end_utc = w.window_end_utc]]
             /\ started' = [started EXCEPT ![w.run_date_msk] = @ + 1]
             /\ runNo' = [runNo EXCEPT ![p] = started[w.run_date_msk] + 1]
             /\ overlapped' = [overlapped EXCEPT ![w.run_date_msk] =
                    @ \/ \E q \in Procs \ {p} :
                            InProgress(q) /\ frame[q].run_date_msk = w.run_date_msk]
    /\ pc' = [pc EXCEPT ![p] = "get"]
    /\ calls' = [calls EXCEPT ![p] = <<>>]
    /\ UNCHANGED <<eval, store, publishCalls, publishOk>>

\* AfterGet with a registry error treated as fatal: the execution returns early.
AfterGetFatal(p, rec, reg_err) ==
    LET f0 == [ExtendErrors(frame[p], reg_err) EXCEPT !.rec = rec]
        f1 == ExtendErrors(f0, <<AlreadyPublished(f0.run_date_msk, rec)>>)
    IN  /\ calls' = [calls EXCEPT ![p] = Append(@, Call("registry.get", f0.run_date_msk, reg_err))]
        /\ IF AlreadyGate(rec)
           THEN /\ frame' = [frame EXCEPT ![p] =
                        [f1 EXCEPT !.ret = [post |-> Nil, errors |-> f1.errors]]]
                /\ pc' = [pc EXCEPT ![p] = "done"]
           ELSE IF reg_err # <<>>
           THEN /\ frame' = [frame EXCEPT ![p] =
                        [f0 EXCEPT !.ret = [post |-> Nil, errors |-> f0.errors]]]
                /\ pc' = [pc EXCEPT ![p] = "done"]
           ELSE /\ frame' = [frame EXCEPT ![p] = f0]
                /\ pc' = [pc EXCEPT ![p] = "results"]
        /\ UNCHANGED <<eval, store, publishCalls, publishOk, runNo, started, overlapped>>

\* Lines 406-423: what follows registry.get returning (rec, reg_err).
AfterGet(p, rec, reg_err) ==
    LET f0 == [ExtendErrors(frame[p], reg_err) EXCEPT !.rec = rec]
        f1 == ExtendErrors(f0, <<AlreadyPublished(f0.run_date_msk, rec)>>)
    IN  /\ calls' = [calls EXCEPT ![p] = Append(@, Call("registry.get", f0.run_date_msk, reg_err))]
        /\ IF AlreadyGate(rec)
           THEN /\ frame' = [frame EXCEPT ![p] =
                        [f1 EXCEPT !.ret = [post |-> Nil, errors |-> f1.errors]]]
                /\ pc' = [pc EXCEPT ![p] = "done"]
           ELSE /\ frame' = [frame EXCEPT ![p] = f0]
                /\ pc' = [pc EXCEPT ![p] = "results"]
        /\ UNCHANGED <<eval, store, publishCalls, publishOk, runNo, started, overlapped>>

\* RegistryGet reading the record of whatever run date the registry holds.
RegistryGetAnyDate(p, errs) ==
    /\ pc[p] = "get"
    /\ \E reg_err \in errs, k \in Keys : AfterGet(p, store[k], reg_err)

\* registry.get of a registry that returns what it stored
\* (InMemoryPublicationRegistry.get), possibly with a warning.
RegistryGet(p, errs) ==
    /\ pc[p] = "get"
    /\ \E reg_err \in errs : AfterGet(p, store[frame[p].run_date_msk], reg_err)

\* Lines 425-445: results_loader.load, and on no match the empty post and its text.
LoadResults(p, errs) ==
    /\ pc[p] = "results"
    /\ \E out \in ResultsOutcomes(frame[p].window_start_utc, frame[p].window_end_utc, errs) :
         LET f0 == [ExtendErrors(frame[p], out.errors)
                       EXCEPT !.matches = out.matches, !.player_stats = out.player_stats]
             post == PostPublic(f0.run_date_msk, f0.now_utc, <<>>, f0.errors)
         IN  /\ IF out.matches = <<>>
                THEN /\ frame' = [frame EXCEPT ![p] =
                             [f0 EXCEPT !.post = post, !.shared = TRUE,
                                        !.text = render_post(post)]]
                     /\ pc' = [pc EXCEPT ![p] = "publish"]
                ELSE /\ frame' = [frame EXCEPT ![p] = f0]
                     /\ pc' = [pc EXCEPT ![p] = "rules"]
         /\ calls' = [calls EXCEPT ![p] =
                Append(@, Call("results_loader.load",
                               <<frame[p].window_start_utc, frame[p].window_end_utc>>,
                               out.errors))]
    /\ UNCHANGED <<eval, store, publishCalls, publishOk, runNo, started, overlapped>>

\* Lines 447-452: rules_loader.load, then score_matches.
LoadRules(p, errs) ==
    /\ pc[p] = "rules"
    /\ \E out \in RulesOutcomes(errs) :
         LET f0 == [ExtendErrors(frame[p], out.errors) EXCEPT !.rules = out.rules]
         IN  /\ frame' = [frame EXCEPT ![p] =
                    [f0 EXCEPT !.ranked =
                        score_matches(f0.matches, f0.player_stats, f0.rules)]]
             /\ calls' = [calls EXCEPT ![p] =
                    Append(@, Call("rules_loader.load", <<>>, out.errors))]
    /\ pc' = [pc EXCEPT ![p] = "videos"]
    /\ UNCHANGED <<eval, store, publishCalls, publishOk, runNo, started, overlapped>>

\* Interesting with a strict comparison (`rm.rank.score > cfg.min_interest_score`).
InterestingStrict(rm, cfg) == rm.rank.score > cfg.min_interest_score

\* Line 455: `if rm.rank.score >= cfg.min_interest_score`
Interesting(rm, cfg) == rm.rank.score >= cfg.min_interest_score

\* MatchIds without the threshold: the identifiers of all the ranked matches.
MatchIdsAll(ranked, cfg) == [i \in 1..Len(ranked) |-> ranked[i].match.match_id]

RECURSIVE MatchIds(_, _)
\* Line 455: the identifiers of the ranked matches at or above the threshold.
MatchIds(ranked, cfg) ==
    IF ranked = <<>> THEN <<>>
    ELSE (IF Interesting(Head(ranked), cfg) THEN <<Head(ranked).match.match_id>> ELSE <<>>)
         \o MatchIds(Tail(ranked), cfg)

\* Lines 454-463: video_loader.load_for_matches, build_post_public, render_post.
LoadVideos(p, errs) ==
    /\ pc[p] = "videos"
    /\ LET match_ids == MatchIds(frame[p].ranked, frame[p].cfg)
       IN  /\ \E out \in VideoOutcomes(match_ids, errs) :
                LET f0 == [ExtendErrors(frame[p], out.errors)
                              EXCEPT !.video_res = out.video_res]
                    post == build_post_public(f0.run_date_msk, f0.now_utc, f0.ranked,
                                              f0.video_res, f0.cfg, f0.errors)
                IN  /\ frame' = [frame EXCEPT ![p] =
                           [f0 EXCEPT !.post = post, !.shared = FALSE,
                                      !.text = render_post(post)]]
                    /\ calls' = [calls EXCEPT ![p] =
                           Append(@, Call("video_loader.load_for_matches", match_ids,
                                          out.errors))]
    /\ pc' = [pc EXCEPT ![p] = "publish"]
    /\ UNCHANGED <<eval, store, publishCalls, publishOk, runNo, started, overlapped>>

\* Publish with a retry: after a failed publish the execution publishes again.
PublishRetrying(p, outs) ==
    /\ pc[p] = "publish"
    /\ \E out \in outs :
         /\ frame' = [frame EXCEPT ![p] =
                [ExtendErrors(frame[p], out.errors) EXCEPT !.msg_id = out.msg_id]]
         /\ publishOk' = [publishOk EXCEPT ![frame[p].run_date_msk] =
                @ + (IF PublishSucceeded(out) THEN 1 ELSE 0)]
         /\ calls' = [calls EXCEPT ![p] =
                Append(@, Call("publisher.publish", frame[p].text, out.errors))]
         /\ pc' = [pc EXCEPT ![p] = IF PublishSucceeded(out) THEN "set" ELSE "publish"]
    /\ publishCalls' = [publishCalls EXCEPT ![frame[p].run_date_msk] = @ + 1]
    /\ UNCHANGED <<eval, store, runNo, started, overlapped>>

\* Lines 438-439 and 464-465: publisher.publish(text).
Publish(p, outs) ==
    /\ pc[p] = "publish"
    /\ \E out \in outs :
         /\ frame' = [frame EXCEPT ![p] =
                [ExtendErrors(frame[p], out.errors) EXCEPT !.msg_id = out.msg_id]]
         /\ publishOk' = [publishOk EXCEPT ![frame[p].run_date_msk] =
                @ + (IF PublishSucceeded(out) THEN 1 ELSE 0)]
         /\ calls' = [calls EXCEPT ![p] =
                Append(@, Call("publisher.publish", frame[p].text, out.errors))]
    /\ publishCalls' = [publishCalls EXCEPT ![frame[p].run_date_msk] = @ + 1]
    /\ pc' = [pc EXCEPT ![p] = "set"]
    /\ UNCHANGED <<eval, store, runNo, started, overlapped>>

\* RecordToSet with the record left unpublished (published=False).
RecordToSetUnpublished(f) ==
    PublicationRecord(f.run_date_msk, FALSE, f.msg_id,
                      IF f.matches = <<>> THEN NoInstant ELSE <<f.now_utc>>)

\* The record handed to registry.set_published: lines 442 and 470-477.
RecordToSet(f) ==
    PublicationRecord(f.run_date_msk, TRUE, f.msg_id,
                      IF f.matches = <<>> THEN NoInstant ELSE <<f.now_utc>>)

\* Lines 440-445 and 467-488: what follows registry.set_published returning set_err.
AfterSet(p, set_err) ==
    LET f0 == ExtendErrors(frame[p], set_err)
        post == IF f0.matches = <<>> THEN f0.post
                ELSE PostPublic(f0.post.run_date_msk, f0.post.generated_at_utc,
                                f0.post.items, f0.errors)
    IN  /\ frame' = [frame EXCEPT ![p] =
               [f0 EXCEPT !.post = post, !.shared = TRUE,
                          !.ret = [post |-> post, errors |-> f0.errors]]]
        /\ calls' = [calls EXCEPT ![p] =
               Append(@, Call("registry.set_published", RecordToSet(frame[p]), set_err))]
        /\ pc' = [pc EXCEPT ![p] = "done"]
        /\ UNCHANGED <<eval, publishCalls, publishOk, runNo, started, overlapped>>

\* registry.set_published of a registry that stores the record
\* (InMemoryPublicationRegistry.set_published), possibly with a warning.
SetPublished(p, errs) ==
    /\ pc[p] = "set"
    /\ store' = [store EXCEPT ![frame[p].run_date_msk] = RecordToSet(frame[p])]
    /\ \E set_err \in errs : AfterSet(p, set_err)

\* registry.get of a registry that cannot be read: no record, and an error.
RegistryGetLost(p) ==
    /\ pc[p] = "get"
    /\ AfterGet(p, Nil, <<ErrRegistryDown>>)

\* registry.set_published of a registry that cannot be written: an error, and
\* nothing stored.
SetPublishedFailed(p) ==
    /\ pc[p] = "set"
    /\ store' = store
    /\ AfterSet(p, <<ErrRegistryDown>>)

\* The caller has taken the result; the execution's locals are gone.
Return(p) ==
    /\ pc[p] = "done"
    /\ pc' = [pc EXCEPT ![p] = "idle"]
    /\ frame' = [frame EXCEPT ![p] = IdleFrame]
    /\ calls' = [calls EXCEPT ![p] = <<>>]
    /\ runNo' = [runNo EXCEPT ![p] = 0]
    /\ UNCHANGED <<eval, store, publishCalls, publishOk, started, overlapped>>

-----------------------------------------------------------------------------
(* Specifications *)

\* No helper is being evaluated on its own.
NoEval == [fn |-> "none", args |-> <<>>, done |-> FALSE, value |-> <<>>]

\* InMemoryPublicationRegistry.__init__: nothing published; no execution running.
NoExecution ==
    /\ store = [k \in Keys |-> Nil]
    /\ pc = [p \in Procs |-> "idle"]
    /\ frame = [p \in Procs |-> IdleFrame]
    /\ calls = [p \in Procs |-> <<>>]
    /\ publishCalls = [k \in Keys |-> 0]
    /\ publishOk = [k \in Keys |-> 0]
    /\ runNo = [p \in Procs |-> 0]
    /\ started = [k \in Keys |-> 0]
    /\ overlapped = [k \in Keys |-> FALSE]

Init == NoExecution /\ eval = NoEval

\* One execution at a time: a call starts only when no other is in progress.
StartAlone(p) ==
    /\ \A q \in Procs : pc[q] = "idle"
    /\ Start(p, Nows, Cfgs)

Get(p) == RegistryGet(p, MaybeError(ErrRegistryGet))
Results(p) == LoadResults(p, MaybeError(ErrResults))
Rules(p) == LoadRules(p, MaybeError(ErrRules))
Videos(p) == LoadVideos(p, MaybeError(ErrVideo))
Pub(p) == Publish(p, PublishOutcomes)
Set(p) == SetPublished(p, MaybeError(ErrRegistrySet))

Steps(p) ==
    \/ Get(p) \/ Results(p) \/ Rules(p) \/ Videos(p) \/ Pub(p) \/ Set(p) \/ Return(p)

Next == \E p \in Procs : StartAlone(p) \/ Steps(p)

\* Sequential executions against a registry that persists.
Spec == Init /\ [][Next]_vars

\* Sequential executions against a registry whose calls may fail.
NextFaulty == Next \/ \E p \in Procs : RegistryGetLost(p) \/ SetPublishedFailed(p)

SpecFaulty == Init /\ [][NextFaulty]_vars

\* Executions that interleave: a call may start while another is in progress.
\* The collaborators report no errors here, except the publisher.
StartAny(p) == Start(p, Nows, {UsecaseConfig(0)})

ConcSteps(p) ==
    \/ RegistryGet(p, {<<>>}) \/ LoadResults(p, {<<>>}) \/ LoadRules(p, {<<>>})
    \/ LoadVideos(p, {<<>>}) \/ Publish(p, PublishOutcomes) \/ SetPublished(p, {<<>>})
    \/ Return(p)

NextConc == \E p \in Procs : StartAny(p) \/ ConcSteps(p)

SpecConc == Init /\ [][NextConc]_vars

-----------------------------------------------------------------------------
(* The helpers called on their own *)

\* The sequences over S of length at most n.
SeqsUpTo(S, n) == UNION {[1..k -> S] : k \in 0..n}

\* What an execution leaves alone when a helper is evaluated on its own.
execVars == <<store, pc, frame, calls, publishCalls, publishOk, runNo, started, overlapped>>

\* A call of the helper fn with the arguments args, not yet evaluated.
Pending(fn, args) == [fn |-> fn, args |-> args, done |-> FALSE, value |-> <<>>]

\* The call returns: eval holds the value.
Apply(fn, value) ==
    /\ eval.fn = fn /\ ~eval.done
    /\ eval' = [eval EXCEPT !.done = TRUE, !.value = value]
    /\ UNCHANGED execVars

Evaluated(fn) == eval.fn = fn /\ eval.done

\* Video-link results in one call of build_post_public.
MaxVideoResults == 2

\* The structured errors a video-link result may embed.
VideoErrA(mid, kind) == AppError("VK_LOOKUP", VK, WARNING, "lookup failed: " \o mid \o "/" \o kind)
VideoErrB(mid, kind) == AppError("VK_TIMEOUT", VK, ERROR, "lookup timed out: " \o mid \o "/" \o kind)

\* The results a video loader may return for a match and a kind: found with
\* its URL, not found, or an error with its AppError (and possibly a stale URL).
VideoLinkResults ==
    UNION { { VideoLinkResult(mid, kind, FOUND, MockUrl(mid, kind), Nil),
              VideoLinkResult(mid, kind, NOT_FOUND, None, Nil),
              VideoLinkResult(mid, kind, VERROR, None, VideoErrA(mid, kind)),
              VideoLinkResult(mid, kind, VERROR, MockUrl(mid, "stale"), VideoErrB(mid, kind)) }
            : mid \in {"m1", "m2", "m9"}, kind \in {HIGHLIGHTS, FULL} }

\* Rankings as score_matches returns them: none, m2 alone (60), m1 (6840) and m2.
Rankings ==
    { score_matches(ms, MockStats, MockRules) :
        ms \in { <<>>, <<MockMatch2(0)>>, <<MockMatch1(0), MockMatch2(0)>> } }

BuildArgs ==
    [run_date_msk : {1}, now_utc : {MskInstant(2, 8, 0)}, ranked : Rankings,
     video_results : SeqsUpTo(VideoLinkResults, MaxVideoResults), cfg : Cfgs,
     extra_errors : {<<>>, <<ErrResults, ErrRules>>}]

InitBuild == NoExecution /\ eval \in {Pending("build_post_public", a) : a \in BuildArgs}

ApplyBuild ==
    Apply("build_post_public",
          build_post_public(eval.args.run_date_msk, eval.args.now_utc, eval.args.ranked,
                            eval.args.video_results, eval.args.cfg, eval.args.extra_errors))

\* build_post_public on any ranking, video-link list, threshold and error list.
SpecBuild == InitBuild /\ [][ApplyBuild]_vars

\* Errors in the list of one rendered post.
MaxErrors == 3

\* Errors for a post: ErrResults, one that differs from it in the severity
\* only, one in the message only, one in the source only.
RenderErrors ==
    { ErrResults,
      [ErrResults EXCEPT !.severity = WARNING],
      [ErrResults EXCEPT !.message = "results incomplete"],
      [ErrResults EXCEPT !.source = VK] }

\* A match with other final score fields.
WithFinalScore(m, goals) == [m EXCEPT !.score_home = goals[1], !.score_away = goals[2]]

\* The results of one night with every final score: none, or m1 and m2.
Nights ==
    {<<>>} \cup { << WithFinalScore(MockMatch1(0), g1), WithFinalScore(MockMatch2(0), g2) >> :
                    g1 \in {<<4, 3>>, <<1, 0>>}, g2 \in {<<2, 1>>, <<0, 0>>, <<7, 5>>} }

\* Two nights of the same matches (they differ in the final scores at most),
\* the video-link results, the threshold and the caller's errors.
RenderArgs ==
    { a \in [matches : Nights, other_matches : Nights,
             video_results : {<<>>, FailingVideoResults(<<"m1", "m2">>)},
             cfg : Cfgs, errors : SeqsUpTo(RenderErrors, MaxErrors)] :
        Len(a.matches) = Len(a.other_matches) }

InitRender == NoExecution /\ eval \in {Pending("render_post", a) : a \in RenderArgs}

\* The post of one night, as run_daily_digest builds it.
PostOf(matches, a) ==
    build_post_public(1, MskInstant(2, 8, 0), score_matches(matches, MockStats, MockRules),
                      a.video_results, a.cfg, a.errors)

ApplyRender ==
    Apply("render_post",
          LET post == PostOf(eval.args.matches, eval.args)
              other == PostOf(eval.args.other_matches, eval.args)
          IN  [post |-> post, text |-> render_post(post),
               other_post |-> other, other_text |-> render_post(other)])

\* render_post on the posts built of two nights that differ in the scores.
SpecRender == InitRender /\ [][ApplyRender]_vars

\* Matches in one call of score_matches.
MaxMatches == 3

\* A third match, of teams and players no rule names.
OtherMatch ==
    [MockMatch2(0) EXCEPT !.match_id = "m3",
                          !.home = Team("DET", "Detroit Red Wings", "DET"),
                          !.away = Team("CHI", "Chicago Blackhawks", "CHI")]

\* A fourth match, of the teams of m1, decided in a shootout.
ShootoutMatch == [MockMatch1(0) EXCEPT !.match_id = "m4", !.went_shootout = TRUE]

\* The matches to score: the mock's m1 (4-3) and m2 (2-1) and two more, each
\* also with another final score (no goal, ten goals, eleven goals), so that
\* different matches come to the same score.
ScoredPool ==
    { MockMatch1(0), WithFinalScore(MockMatch1(0), <<0, 0>>),
      MockMatch2(0), WithFinalScore(MockMatch2(0), <<6, 5>>),
      OtherMatch, WithFinalScore(OtherMatch, <<0, 0>>),
      ShootoutMatch, WithFinalScore(ShootoutMatch, <<5, 5>>) }

\* More stat rows: a weighted player without a point, and one with assists only.
MoreStats ==
    MockStats \o << PlayerGameStats("m1", "p_2", "Other Player", "NYR", 0, 0),
                    PlayerGameStats("m3", "p_1", "Star Player", "DET", 0, 1),
                    PlayerGameStats("m4", "p_1", "Star Player", "BOS", 1, 1) >>

\* More rules: weights for both teams of m1, two rules for one team that sum
\* to zero, a negative weight, a kind written "Team", and an unknown kind.
MoreRules ==
    MockRules \o << ScoringRule("Team", "NYR", FloatWeight(500), "rival"),
                    ScoringRule("team", "TOR", FloatWeight(1000), "up"),
                    ScoringRule("team", "TOR", FloatWeight(-1000), "down"),
                    ScoringRule("player", "p_2", FloatWeight(-1000), "dull player"),
                    ScoringRule("coach", "DET", FloatWeight(9000), "unknown kind") >>

ScoreArgs ==
    [matches : SeqsUpTo(ScoredPool, MaxMatches), player_stats : {MockStats, MoreStats},
     rules : {<<>>, MockRules, MoreRules}]

InitScore == NoExecution /\ eval \in {Pending("score_matches", a) : a \in ScoreArgs}

ApplyScore ==
    Apply("score_matches",
          score_matches(eval.args.matches, eval.args.player_stats, eval.args.rules))

\* score_matches on any list of matches, with and without rules.
SpecScore == InitScore /\ [][ApplyScore]_vars

\* Rules in one call of score_matches with rules of every shape.
MaxRules == 2

\* The rules a loader may supply: of a known or an unknown kind, with a float,
\* the text of a number, or a malformed text as the weight.
RuleCandidates ==
    { ScoringRule(e[1], e[2], w, "") :
        e \in {<<"team", "BOS">>, <<"team", "TOR">>, <<"player", "p_1">>, <<"coach", "BOS">>},
        w \in {FloatWeight(1500), TextWeight("1.5"), TextWeight("abc")} }

RulesArgs ==
    [matches : {<<MockMatch1(0), MockMatch2(0)>>}, player_stats : {MockStats},
     rules : SeqsUpTo(RuleCandidates, MaxRules)]

InitRules == NoExecution /\ eval \in {Pending("score_matches", a) : a \in RulesArgs}

\* score_matches on the mock's matches with any rules.
SpecRules == InitRules /\ [][ApplyScore]_vars

\* Days the reference instant of compute_window ranges over, minute by minute.
MaxDays == 2

\* Configurations of the window: the zone, the publish hour and the lookback vary.
WindowCfgs ==
    { [UsecaseConfig(0) EXCEPT !.tz_msk = tz, !.publish_hour_msk = h, !.lookback_hours = l] :
        tz \in {"Europe/Moscow", "UTC", "America/New_York"}, h \in {0, 8, 23},
        l \in {24, 48} }

\* The reference instants: the day before the New York clock change and the
\* days from it on.
WindowArgs ==
    [now_utc : (NewYorkDstStart - 24 * 60)..(NewYorkDstStart + (MaxDays - 1) * 24 * 60 - 1),
     cfg : WindowCfgs]

InitWindow == NoExecution /\ eval \in {Pending("compute_window", a) : a \in WindowArgs}

ApplyWindow == Apply("compute_window", compute_window(eval.args.now_utc, eval.args.cfg))

\* compute_window at every minute of MaxDays days, for every configuration.
SpecWindow == InitWindow /\ [][ApplyWindow]_vars

-----------------------------------------------------------------------------
(* Properties *)

Ops(cs) == [i \in 1..Len(cs) |-> cs[i].op]

RECURSIVE CallErrors(_)
\* The errors the collaborators returned, in the order of the calls.
CallErrors(cs) == IF cs = <<>> THEN <<>> ELSE Head(cs).errs \o CallErrors(Tail(cs))

IsAlreadyPublished(e) ==
    e.code = "ALREADY_PUBLISHED" /\ e.source = CORE /\ e.severity = WARNING

ShortPath ==
    <<"registry.get", "results_loader.load", "publisher.publish", "registry.set_published">>

FullPath ==
    <<"registry.get", "results_loader.load", "rules_loader.load",
      "video_loader.load_for_matches", "publisher.publish", "registry.set_published">>

\* An execution that has returned a post.
ReturnedPost(p) == pc[p] = "done" /\ frame[p].ret.post # Nil

\* An execution that has returned at the idempotency check.
ReturnedGated(p) == pc[p] = "done" /\ frame[p].ret.post = Nil

\* C1: the second of two sequential executions for one run date, against a
\* registry that returns what it stored, returns no post and exactly one
\* ALREADY_PUBLISHED warning, and publish has been invoked exactly once in all.
C1_SecondRunSkipsPublish ==
    \A p \in Procs :
        (pc[p] = "done" /\ runNo[p] = 2) =>
            /\ publishCalls[frame[p].run_date_msk] = 1
            /\ frame[p].ret.post = Nil
            /\ Count(frame[p].ret.errors, IsAlreadyPublished) = 1
            /\ Count(frame[p].ret.errors, LAMBDA e : e.code = "ALREADY_PUBLISHED") = 1

C1_Witness == \E p \in Procs : pc[p] = "done" /\ runNo[p] = 2

\* C2: whatever the collaborators return, at most one publish call succeeds
\* for a run date.
C2_AtMostOneSuccessfulPublish == \A k \in Keys : publishOk[k] <= 1

\* C3: on zero matches the execution publishes the rendered empty post once and
\* hands set_published a published record for the run date, so that the gate
\* of a later execution is closed; the rules and video loaders are not called.
C3_NoMatchesPublishesAndRecords ==
    \A p \in Procs :
        (ReturnedPost(p) /\ frame[p].matches = <<>>) =>
            LET f == frame[p]
                errs_before == calls[p][1].errs \o calls[p][2].errs
            IN  /\ Ops(calls[p]) = ShortPath
                /\ f.ret.post.items = <<>>
                /\ calls[p][3].arg =
                     render_post(PostPublic(f.run_date_msk, f.now_utc, <<>>, errs_before))
                /\ calls[p][3].arg[1] = NoMatchesLine
                /\ publishCalls[f.run_date_msk] = 1
                /\ calls[p][4].arg.run_date_msk = f.run_date_msk
                /\ calls[p][4].arg.published
                /\ store[f.run_date_msk] = calls[p][4].arg
                /\ store[f.run_date_msk] # Nil /\ store[f.run_date_msk].published

C3_Witness ==
    \E p \in Procs :
        /\ ReturnedPost(p) /\ frame[p].matches = <<>>
        /\ calls[p][2].errs # <<>>

\* C4: when registry.get returns a published record the execution makes no
\* other collaborator call, leaves the registry as it is and returns no post
\* and the registry-get errors followed by one ALREADY_PUBLISHED core warning.
C4_GatedRunDoesNothing ==
    [][\A p \in Procs :
          (/\ pc[p] = "get" /\ pc'[p] # "get"
           /\ frame'[p].rec # Nil /\ frame'[p].rec.published) =>
              /\ pc'[p] = "done"
              /\ store' = store
              /\ publishCalls' = publishCalls
              /\ Ops(calls'[p]) = <<"registry.get">>
              /\ frame'[p].ret.post = Nil
              /\ frame'[p].ret.errors =
                   calls'[p][1].errs
                   \o <<AlreadyPublished(frame[p].run_date_msk, frame'[p].rec)>>
              /\ IsAlreadyPublished(frame'[p].ret.errors[Len(frame'[p].ret.errors)])
              /\ frame'[p].matches = <<>> /\ frame'[p].msg_id = None
      ]_vars

C4_Witness ==
    \E p \in Procs :
        /\ pc[p] = "done" /\ frame[p].rec # Nil /\ frame[p].rec.published
        /\ calls[p][1].errs # <<>>

\* C5: a published record exists for a run date only if a publish call for
\* that date succeeded.
C5_RecordOnlyAfterSuccessfulPublish ==
    \A k \in Keys : (store[k] # Nil /\ store[k].published) => publishOk[k] >= 1

\* C6: once the record of a run date exists, no step of a later execution
\* changes it.
C6_RecordNeverMutated ==
    [][\A k \in Keys : store[k] # Nil => store'[k] = store[k]]_vars

C6_Witness ==
    \E p \in Procs :
        /\ pc[p] = "done" /\ runNo[p] >= 2
        /\ store[frame[p].run_date_msk] # Nil
        /\ store[frame[p].run_date_msk].published_at_utc # <<frame[p].now_utc>>

\* C7: the error list of a returned post is the returned error list, and it
\* holds the errors every collaborator of the execution returned, those of
\* publish and set_published included.
C7_ReturnedPostHasFinalErrors ==
    \A p \in Procs :
        ReturnedPost(p) =>
            /\ frame[p].ret.post.errors = frame[p].ret.errors
            /\ \A i \in 1..Len(calls[p]) :
                 Range(calls[p][i].errs) \subseteq Range(frame[p].ret.post.errors)

C7_Witness ==
    \E p \in Procs :
        /\ ReturnedPost(p) /\ frame[p].matches = <<>>
        /\ ErrPublish \in Range(frame[p].ret.post.errors)
        /\ ErrRegistrySet \in Range(frame[p].ret.post.errors)

\* C8: an execution that is not gated reaches publish and set_published and
\* returns a post, whatever errors the collaborators returned, and its error
\* list is those errors in the order of the calls.
C8_ErrorsNeverAbort ==
    \A p \in Procs :
        /\ (pc[p] = "done" /\ ~AlreadyGate(frame[p].rec)) =>
              /\ frame[p].ret.post # Nil
              /\ Ops(calls[p]) \in {ShortPath, FullPath}
              /\ frame[p].ret.errors = CallErrors(calls[p])
        /\ InProgress(p) => frame[p].errors = CallErrors(calls[p])

C8_Witness ==
    \E p \in Procs :
        /\ pc[p] = "done" /\ ~AlreadyGate(frame[p].rec)
        /\ Ops(calls[p]) = FullPath
        /\ \A i \in 1..Len(calls[p]) : calls[p][i].errs # <<>>

\* C9: the collaborator calls of an execution follow the one order, each at
\* most once; rules and videos are loaded exactly when there is a match; and
\* the execution ends either gated (ALREADY_PUBLISHED) or recorded (RECORDED).
C9_CallOrder ==
    \A p \in Procs :
        LET ops == Ops(calls[p])
            already == ops = <<"registry.get">> /\ ReturnedGated(p)
                       /\ IsAlreadyPublished(frame[p].ret.errors[Len(frame[p].ret.errors)])
            recorded == ops \in {ShortPath, FullPath} /\ ReturnedPost(p)
        IN  /\ IsPrefix(ops, ShortPath) \/ IsPrefix(ops, FullPath)
            /\ Len(ops) >= 3 => (IsPrefix(ops, ShortPath) <=> frame[p].matches = <<>>)
            /\ pc[p] = "done" => (already /\ ~recorded) \/ (recorded /\ ~already)

C9_Witness ==
    \E p \in Procs :
        /\ pc[p] = "done" /\ Ops(calls[p]) = FullPath
        /\ calls[p][5].errs # <<>>

\* C10: a second publish for a run date happens only when an execution for
\* that date started while another one for it was in progress; executions for
\* a date that run one after the other publish at most once.
C10_SecondPublishNeedsOverlap ==
    \A k \in Keys : publishCalls[k] >= 2 => overlapped[k]

\* Two interleaved executions for one run date have both passed the idempotency gate and
\* both published.
C10_Witness ==
    \E p, q \in Procs :
        /\ p # q /\ ReturnedPost(p) /\ ReturnedPost(q)
        /\ frame[p].run_date_msk = frame[q].run_date_msk
        /\ publishCalls[frame[p].run_date_msk] = 2

\* C11: executions for different run dates do not affect each other. A step of
\* an execution for a run date reads and writes the registry record of that
\* date only, and an execution that no other execution for its date overlapped
\* ends as it would alone: the first one for the date publishes once and returns
\* a post and the errors of its own calls, a later one is gated with one
\* publish for the date in all.
C11_OtherDatesIndependent ==
    [][/\ \A p \in Procs :
            /\ (pc[p] = "get" /\ pc'[p] # "get") =>
                  frame'[p].rec = store[frame[p].run_date_msk]
            /\ pc'[p] # pc[p] =>
                  \A k \in Keys \ {frame[p].run_date_msk} :
                      /\ store'[k] = store[k]
                      /\ publishCalls'[k] = publishCalls[k]
            /\ (pc'[p] = "done" /\ ~overlapped'[frame'[p].run_date_msk]) =>
                  LET f == frame'[p]
                  IN  /\ publishCalls'[f.run_date_msk] = 1
                      /\ runNo'[p] = 1 =>
                            /\ f.ret.post # Nil
                            /\ f.ret.errors = CallErrors(calls'[p])
                            /\ store'[f.run_date_msk] = RecordToSet(f)
                      /\ runNo'[p] >= 2 =>
                            /\ f.ret.post = Nil
                            /\ f.ret.errors = <<AlreadyPublished(f.run_date_msk, f.rec)>>
      ]_vars

\* Two executions for different run dates are in progress at once, and each
\* has published.
C11_Witness ==
    \E p, q \in Procs :
        /\ p # q /\ pc[p] = "set" /\ pc[q] = "set"
        /\ frame[p].run_date_msk # frame[q].run_date_msk
        /\ publishCalls[frame[p].run_date_msk] = 1
        /\ publishCalls[frame[q].run_date_msk] = 1

\* The identifiers of a sequence of ranked matches or of post items.
IdsOf(xs) == [i \in 1..Len(xs) |-> IF "match" \in DOMAIN xs[i] THEN xs[i].match.match_id
                                    ELSE xs[i].match_id]

\* The ranked matches whose score is at least min, in ranked order.
AtOrAbove(ranked, min) == SelectSeq(ranked, LAMBDA rm : rm.rank.score >= min)

\* C12: the identifiers handed to video_loader.load_for_matches are those of
\* the ranked matches with score >= min_interest_score, in ranked order, and
\* the items of the post built from the answer are the same matches.
C12_VideoIdsAreInterestingMatches ==
    \A p \in Procs :
        (Len(calls[p]) >= 4 /\ calls[p][4].op = "video_loader.load_for_matches") =>
            LET f == frame[p]
            IN  /\ calls[p][4].arg = IdsOf(AtOrAbove(f.ranked, f.cfg.min_interest_score))
                /\ f.post # Nil
                /\ IdsOf(f.post.items) = calls[p][4].arg
                /\ Range(IdsOf(f.post.items)) = Range(calls[p][4].arg)

\* Videos were requested for a ranking whose lowest score is the threshold.
C12_Witness ==
    \E p \in Procs :
        /\ Len(calls[p]) >= 4 /\ calls[p][4].op = "video_loader.load_for_matches"
        /\ Len(frame[p].ranked) = 2
        /\ frame[p].ranked[2].rank.score = frame[p].cfg.min_interest_score
        /\ calls[p][4].arg = <<"m1", "m2">>

\* Videos were requested for a ranking of which one match is below the threshold.
C12_WitnessDropped ==
    \E p \in Procs :
        /\ Len(calls[p]) >= 4 /\ calls[p][4].op = "video_loader.load_for_matches"
        /\ Len(frame[p].ranked) = 2 /\ calls[p][4].arg = <<"m1">>

\* The video-link results with status error for one of the matches ids.
ErrorResultsFor(video_results, ids) ==
    {vr \in Range(video_results) : vr.status = VERROR /\ vr.match_id \in ids}

\* C13: build_post_public makes one item for each ranked match with score >=
\* the threshold and none for the others, in ranked order, whatever the
\* video-link results are; a dropped match adds no error.
C13_OneItemPerInterestingMatch ==
    Evaluated("build_post_public") =>
        LET a == eval.args
            post == eval.value
            kept == AtOrAbove(a.ranked, a.cfg.min_interest_score)
        IN  /\ Len(post.items) = Len(kept)
            /\ \A i \in 1..Len(kept) :
                  /\ post.items[i].match_id = kept[i].match.match_id
                  /\ post.items[i].title = _match_title(kept[i].match)
                  /\ post.items[i].start_time_utc = kept[i].match.start_time_utc
                  /\ post.items[i].rank_score = kept[i].rank.score
            /\ \A i \in 1..Len(post.errors) :
                  \/ i <= Len(a.extra_errors) /\ post.errors[i] = a.extra_errors[i]
                  \/ \E vr \in ErrorResultsFor(a.video_results, Range(IdsOf(kept))) :
                        post.errors[i] = vr.error
            /\ ErrorResultsFor(a.video_results, Range(IdsOf(kept))) = {} =>
                  post.errors = a.extra_errors

\* A post was built from a ranking of two of which the second is below the
\* threshold, and an error result came for the dropped match.
C13_Witness ==
    /\ Evaluated("build_post_public")
    /\ Len(eval.args.ranked) = 2 /\ IdsOf(eval.value.items) = <<"m1">>
    /\ ErrorResultsFor(eval.args.video_results, {"m2"}) # {}

\* The positions of the results for a match and a kind.
ResultsAt(video_results, mid, kind) ==
    {j \in 1..Len(video_results) :
        video_results[j].match_id = mid /\ video_results[j].kind = kind}

\* The URL an item is to carry for a kind: that of the result for the match
\* and the kind (the last one, if several came) when its status is found.
ExpectedUrl(video_results, mid, kind) ==
    LET at == ResultsAt(video_results, mid, kind)
        last == CHOOSE j \in at : \A k \in at : k <= j
    IN  IF at # {} /\ video_results[last].status = FOUND
        THEN video_results[last].url ELSE None

\* The results of one kind only.
OfKind(video_results, kind) == SelectSeq(video_results, LAMBDA vr : vr.kind = kind)

\* The post build_post_public makes of the evaluated call's arguments with
\* other video-link results.
BuiltWith(video_results) ==
    build_post_public(eval.args.run_date_msk, eval.args.now_utc, eval.args.ranked,
                      video_results, eval.args.cfg, eval.args.extra_errors)

\* C14: each URL of an item is present exactly when the result for the match
\* and that kind has status found, and is then its URL; a not-found, error or
\* missing result leaves it absent; and the URL of one kind is what it would be
\* without any result of the other kind.
C14_UrlsResolvedIndependently ==
    Evaluated("build_post_public") =>
        LET a == eval.args
            items == eval.value.items
            only_h == BuiltWith(OfKind(a.video_results, HIGHLIGHTS)).items
            only_f == BuiltWith(OfKind(a.video_results, FULL)).items
        IN  \A i \in 1..Len(items) :
              /\ items[i].highlights_url =
                    ExpectedUrl(a.video_results, items[i].match_id, HIGHLIGHTS)
              /\ items[i].full_url = ExpectedUrl(a.video_results, items[i].match_id, FULL)
              /\ items[i].highlights_url # None =>
                    \E vr \in Range(a.video_results) :
                        /\ vr.match_id = items[i].match_id /\ vr.kind = HIGHLIGHTS
                        /\ vr.status = FOUND /\ vr.url = items[i].highlights_url
              /\ items[i].full_url # None =>
                    \E vr \in Range(a.video_results) :
                        /\ vr.match_id = items[i].match_id /\ vr.kind = FULL
                        /\ vr.status = FOUND /\ vr.url = items[i].full_url
              /\ items[i].highlights_url = only_h[i].highlights_url
              /\ items[i].full_url = only_f[i].full_url

\* An item has its highlights URL although the full-video result of the same
\* match is an error, which came last.
C14_Witness ==
    /\ Evaluated("build_post_public")
    /\ \E i \in 1..Len(eval.value.items) :
          LET it == eval.value.items[i]
              n == Len(eval.args.video_results)
          IN  /\ it.highlights_url # None /\ it.full_url = None
              /\ n = 2
              /\ eval.args.video_results[n].match_id = it.match_id
              /\ eval.args.video_results[n].kind = FULL
              /\ eval.args.video_results[n].status = VERROR

\* The embedded errors of all the results with status error, in list order.
EmbeddedErrors(video_results) ==
    LET errs == SelectSeq(video_results, LAMBDA vr : vr.status = VERROR)
    IN  [i \in 1..Len(errs) |-> errs[i].error]

\* C15: the error list of the built post is the caller's errors followed by
\* the embedded error of every video-link result whose status is error, as
\* many times as such results came.
C15_EveryErrorResultReported ==
    Evaluated("build_post_public") =>
        LET a == eval.args
            errors == eval.value.errors
            n == Len(a.extra_errors)
            rest == SubSeq(errors, n + 1, Len(errors))
            embedded == EmbeddedErrors(a.video_results)
        IN  /\ IsPrefix(a.extra_errors, errors)
            /\ \A e \in Range(embedded) \cup Range(rest) :
                  Count(rest, LAMBDA x : x = e) = Count(embedded, LAMBDA x : x = e)

\* Two error results came for the highlights of m1, which is an item of the
\* post, and the post carries the error of one of them only.
C15_DuplicateErrorLost ==
    /\ Evaluated("build_post_public")
    /\ "m1" \in Range(IdsOf(eval.value.items))
    /\ eval.args.video_results =
         << VideoLinkResult("m1", HIGHLIGHTS, VERROR, None, VideoErrA("m1", HIGHLIGHTS)),
            VideoLinkResult("m1", HIGHLIGHTS, VERROR, MockUrl("m1", "stale"),
                            VideoErrB("m1", HIGHLIGHTS)) >>
    /\ eval.value.errors = eval.args.extra_errors \o <<VideoErrB("m1", HIGHLIGHTS)>>

\* The position of the publish call in a call log (0: not called).
PublishAt(cs) ==
    IF \E i \in 1..Len(cs) : cs[i].op = "publisher.publish"
    THEN CHOOSE i \in 1..Len(cs) : cs[i].op = "publisher.publish" ELSE 0

\* The lines of a text after its error header (none without a header).
SummaryOf(text) ==
    IF \E i \in 1..Len(text) : text[i] = ProblemsHeader
    THEN LET h == CHOOSE i \in 1..Len(text) : text[i] = ProblemsHeader
         IN  SubSeq(text, h + 1, Len(text))
    ELSE <<>>

HasSummary(text) == ProblemsHeader \in Range(text)

\* C16 as stated: the text an execution published lists, once each, every
\* error the execution returns, those of publish and of the registry
\* included, and it has the error header when there is any.
C16_AllErrorsInPublishedText ==
    \A p \in Procs :
        ReturnedPost(p) =>
            LET text == calls[p][PublishAt(calls[p])].arg
            IN  /\ frame[p].ret.errors # <<>> => HasSummary(text)
                /\ \A e \in Range(frame[p].ret.errors) :
                      Count(SummaryOf(text), LAMBDA l : l = ErrorLine(e)) = 1

\* C16 (amended): the text an execution publishes lists, once each, the
\* errors of the post it renders - those returned by registry.get and by the
\* results, rules and video loaders, and the embedded errors build_post_public
\* took from the video-link results - and nothing else; it has the error
\* header exactly when there is such an error.  The errors of publish and
\* set_published, which come after the rendering, are in the returned error
\* list only.  No error aborts the generation: an execution that is not gated
\* publishes and returns a post.
C16_ErrorsBeforeRenderInPublishedText ==
    \A p \in Procs :
        /\ PublishAt(calls[p]) # 0 =>
              LET at == PublishAt(calls[p])
                  text == calls[p][at].arg
                  before == CallErrors(SubSeq(calls[p], 1, at - 1))
                  f == frame[p]
                  known == IF f.matches = <<>> THEN before
                           ELSE build_post_public(f.run_date_msk, f.now_utc, f.ranked,
                                                  f.video_res, f.cfg, before).errors
              IN  /\ HasSummary(text) <=> known # <<>>
                  /\ Range(SummaryOf(text)) = {ErrorLine(e) : e \in Range(known)}
                  /\ \A e \in Range(known) :
                        Count(SummaryOf(text), LAMBDA l : l = ErrorLine(e)) = 1
                  /\ IsPrefix(before, known)
                  /\ text = f.text
        /\ (pc[p] = "done" /\ ~AlreadyGate(frame[p].rec)) =>
              /\ PublishAt(calls[p]) # 0
              /\ frame[p].ret.post # Nil
              /\ Range(CallErrors(calls[p])) \subseteq Range(frame[p].ret.errors)

\* A post was returned after every collaborator reported an error and the
\* video-link results embedded one: the published text lists the earlier
\* errors and not the one of publish.
C16_Witness ==
    \E p \in Procs :
        /\ ReturnedPost(p) /\ Ops(calls[p]) = FullPath
        /\ \A i \in 1..Len(calls[p]) : calls[p][i].errs # <<>>
        /\ ErrVideoLink \in Range(EmbeddedErrors(frame[p].video_res))
        /\ ErrorLine(ErrVideoLink) \in Range(SummaryOf(calls[p][5].arg))
        /\ ErrorLine(ErrPublish) \notin Range(calls[p][5].arg)

\* A post with every rank score replaced.
WithRankScores(post, score) ==
    [post EXCEPT !.items = [i \in 1..Len(post.items) |->
                               [post.items[i] EXCEPT !.rank_score = score]]]

\* C17: the text of a post does not depend on scores.  Two posts built from
\* matches that differ in the final score fields only and that have the same
\* items in the same order render to the same text, and so does a post whose
\* rank scores are replaced.
C17_TextIndependentOfScores ==
    Evaluated("render_post") =>
        LET v == eval.value
        IN  /\ IdsOf(v.post.items) = IdsOf(v.other_post.items) => v.text = v.other_text
            /\ render_post(WithRankScores(v.post, 0)) = v.text
            /\ render_post(WithRankScores(v.post, 12345)) = v.text

\* Two posts of the same two items, whose rank scores differ, were rendered.
C17_Witness ==
    /\ Evaluated("render_post")
    /\ IdsOf(eval.value.post.items) = <<"m1", "m2">>
    /\ IdsOf(eval.value.other_post.items) = <<"m1", "m2">>
    /\ eval.value.post.items[1].rank_score # eval.value.other_post.items[1].rank_score
    /\ eval.value.post.items[2].rank_score # eval.value.other_post.items[2].rank_score
    /\ eval.args.matches[1].score_home # eval.args.other_matches[1].score_home

\* The positions of the errors whose (code, origin, message) no earlier error has.
FirstOccurrences(errors) ==
    SelectSeq([i \in 1..Len(errors) |-> i],
              LAMBDA i : \A j \in 1..(i - 1) :
                  <<errors[j].code, errors[j].source, errors[j].message>>
                  # <<errors[i].code, errors[i].source, errors[i].message>>)

\* C18: render_post emits the error header exactly when the error list of the
\* post is not empty, and after it one line for each distinct (code, origin,
\* message), in the order of first occurrence; a later error with the triple
\* of an earlier one emits nothing, whatever its severity.
C18_OneLinePerDistinctError ==
    Evaluated("render_post") =>
        LET errors == eval.value.post.errors
            text == eval.value.text
            first == FirstOccurrences(errors)
        IN  /\ HasSummary(text) <=> errors # <<>>
            /\ Count(text, LAMBDA l : l = ProblemsHeader) <= 1
            /\ SummaryOf(text) = [k \in 1..Len(first) |-> ErrorLine(errors[first[k]])]
            /\ errors # <<>> => text[Len(text)] = ErrorLine(errors[first[Len(first)]])

\* A post was rendered whose third error has the triple of the first and
\* another severity, with a different error between them.
C18_Witness ==
    /\ Evaluated("render_post")
    /\ Len(eval.value.post.errors) >= 3
    /\ LET e == eval.value.post.errors
       IN  /\ <<e[1].code, e[1].source, e[1].message>> = <<e[3].code, e[3].source, e[3].message>>
           /\ e[1].severity # e[3].severity
           /\ e[2].message # e[1].message
    /\ Len(SummaryOf(eval.value.text)) < Len(eval.value.post.errors)

\* The one-to-one maps of 1..n onto itself.
Bijections(n) == {f \in [1..n -> 1..n] : \A i, j \in 1..n : f[i] = f[j] => i = j}

\* C19: the list score_matches returns is a permutation of the scored input
\* matches, in descending order of score, and matches of equal score are in
\* the order of the input.
C19_RankedIsStableDescendingPermutation ==
    Evaluated("score_matches") =>
        LET a == eval.args
            out == eval.value
            n == Len(a.matches)
            idx == _index_rules(a.rules)
            scored == [i \in 1..n |-> ScoreOne(a.matches[i], a.player_stats, idx)]
        IN  /\ Len(out) = n
            /\ \E from \in Bijections(n) :
                  /\ \A k \in 1..n : out[k] = scored[from[k]]
                  /\ \A k, l \in 1..n :
                        k < l => \/ out[k].rank.score > out[l].rank.score
                                 \/ /\ out[k].rank.score = out[l].rank.score
                                    /\ from[k] < from[l]

\* Three different matches were ranked, two of them of one score, and the
\* ranking is not the input order.
C19_Witness ==
    /\ Evaluated("score_matches")
    /\ Len(eval.value) = 3
    /\ Cardinality(Range(IdsOf(eval.value))) = 3
    /\ eval.value[2].rank.score = eval.value[3].rank.score
    /\ eval.value[1].rank.score > eval.value[2].rank.score
    /\ eval.value[1].match # eval.args.matches[1]

\* The local wall clock of an instant: the day number and the minute of the day.
LocalDay(now_utc, tz) == (now_utc + UtcOffsetAt(tz, now_utc)) \div (24 * 60)
LocalMinute(now_utc, tz) == (now_utc + UtcOffsetAt(tz, now_utc)) % (24 * 60)

\* C20: for a reference instant whose local time is before publish_hour:00
\* the run date is the previous local day, for one at or after it the run
\* date is the local day; and the window ends at publish_hour:00 local time
\* of the run date.
C20_RunDateAnchoredToPublishHour ==
    Evaluated("compute_window") =>
        LET a == eval.args
            w == eval.value
            day == LocalDay(a.now_utc, a.cfg.tz_msk)
            minute == LocalMinute(a.now_utc, a.cfg.tz_msk)
        IN  /\ minute < a.cfg.publish_hour_msk * 60 => w.run_date_msk = day - 1
            /\ minute >= a.cfg.publish_hour_msk * 60 => w.run_date_msk = day
            /\ LocalDay(w.window_end_utc, a.cfg.tz_msk) = w.run_date_msk
            /\ LocalMinute(w.window_end_utc, a.cfg.tz_msk) = a.cfg.publish_hour_msk * 60
            /\ w.window_end_utc <= a.now_utc

\* The window was computed for 08:00 Moscow time sharp, which is 05:00 UTC:
\* the run date is that day.
C20_Witness ==
    /\ Evaluated("compute_window")
    /\ eval.args.cfg.tz_msk = "Europe/Moscow" /\ eval.args.cfg.publish_hour_msk = 8
    /\ eval.args.now_utc = 115 * 24 * 60 + 5 * 60
    /\ eval.value.run_date_msk = 115
    /\ eval.value.window_end_utc = eval.args.now_utc

\* The window was computed for 07:59 Moscow time: the run date is the day before.
C20_WitnessBefore ==
    /\ Evaluated("compute_window")
    /\ eval.args.cfg.tz_msk = "Europe/Moscow" /\ eval.args.cfg.publish_hour_msk = 8
    /\ eval.args.now_utc = 115 * 24 * 60 + 4 * 60 + 59
    /\ eval.value.run_date_msk = 114

\* C21: the window compute_window returns is lookback_hours long: its end
\* minus its start, as absolute instants, is lookback_hours hours.
C21_WindowLengthIsLookback ==
    Evaluated("compute_window") =>
        eval.value.window_end_utc - eval.value.window_start_utc
            = eval.args.cfg.lookback_hours * 60

\* The window computed in America/New_York at 09:00 local time on the day of
\* the clock change, with the default publish hour and lookback, is 47 hours long.
C21_WindowAcrossClockChange ==
    /\ Evaluated("compute_window")
    /\ eval.args.cfg.tz_msk = "America/New_York"
    /\ eval.args.cfg.publish_hour_msk = 8 /\ eval.args.cfg.lookback_hours = 48
    /\ eval.args.now_utc = 115 * 24 * 60 + 13 * 60
    /\ eval.value.window_end_utc = 115 * 24 * 60 + 12 * 60
    /\ eval.value.window_start_utc = 113 * 24 * 60 + 13 * 60

\* In a zone without clock changes the window is lookback_hours long.
C21_FixedOffsetWindowLength ==
    (Evaluated("compute_window") /\ eval.args.cfg.tz_msk \in {"Europe/Moscow", "UTC"}) =>
        eval.value.window_end_utc - eval.value.window_start_utc
            = eval.args.cfg.lookback_hours * 60

\* The place of a contribution in the computation order.
Stage(reason) ==
    CASE reason = "team_weight" -> 1
      [] reason = "player_weight" -> 2
      [] reason = "overtime_bonus" -> 3
      [] reason = "shootout_bonus" -> 4
      [] reason = "total_goals_bonus" -> 5

\* C22: score_matches returns one scored entry for each input match; the score
\* of an entry is the sum of the weights of its contributions, none of which
\* is zero, and the contributions are in the order of the computation: team
\* weights (home, then away), player weights, overtime bonus, shootout bonus,
\* total-goals bonus.
C22_ScoreIsSumOfContributions ==
    Evaluated("score_matches") =>
        LET ms == eval.args.matches
            out == eval.value
        IN  /\ Len(out) = Len(ms)
            /\ \A m \in Range(ms) :
                  Count(out, LAMBDA rm : rm.match = m) = Count(ms, LAMBDA x : x = m)
            /\ \A k \in 1..Len(out) :
                  LET cs == out[k].rank.contributions
                      teams == SelectSeq(cs, LAMBDA c : c.reason = "team_weight")
                  IN  /\ out[k].rank.match_id = out[k].match.match_id
                      /\ out[k].rank.score = SumContribs(cs)
                      /\ \A i \in 1..Len(cs) : cs[i].weight # 0
                      /\ \A i, j \in 1..Len(cs) :
                            i < j => Stage(cs[i].reason) <= Stage(cs[j].reason)
                      /\ \A r \in {"overtime_bonus", "shootout_bonus", "total_goals_bonus"} :
                            Count(cs, LAMBDA c : c.reason = r) <= 1
                      /\ Len(teams) <= 2
                      /\ Len(teams) = 2 =>
                            /\ teams[1].entity_id = out[k].match.home.team_id
                            /\ teams[2].entity_id = out[k].match.away.team_id

\* A match was scored with every kind of contribution: both teams, a player,
\* overtime, shootout and total goals.
C22_Witness ==
    /\ Evaluated("score_matches")
    /\ \E k \in 1..Len(eval.value) :
          LET cs == eval.value[k].rank.contributions
          IN  /\ [i \in 1..Len(cs) |-> cs[i].reason] =
                   <<"team_weight", "team_weight", "player_weight", "overtime_bonus",
                     "shootout_bonus", "total_goals_bonus">>
              /\ eval.value[k].rank.score = SumContribs(cs)

\* The weights of the contributions of an entry, in order.
WeightsOf(rm) == [i \in 1..Len(rm.rank.contributions) |-> rm.rank.contributions[i].weight]

\* C23: with the mock's rules and stat rows, m1 (4-3, overtime) scores
\* 1.5 + 5.0 + 0.2 + 0.14 = 6.84 and m2 (2-1) scores 0.06, and the ranking is
\* m1, m2 whatever the input order; and for every match the total-goals bonus
\* is min(1, goals/10) * 0.2, which is 0.2 from ten goals on.
C23_WorkedExample ==
    Evaluated("score_matches") =>
        LET a == eval.args
            out == eval.value
        IN  /\ ( /\ a.matches \in { <<MockMatch1(0), MockMatch2(0)>>,
                                     <<MockMatch2(0), MockMatch1(0)>> }
                 /\ a.player_stats = MockStats /\ a.rules = MockRules ) =>
                  /\ IdsOf(out) = <<"m1", "m2">>
                  /\ out[1].rank.score = 6840 /\ WeightsOf(out[1]) = <<1500, 5000, 200, 140>>
                  /\ out[2].rank.score = 60 /\ WeightsOf(out[2]) = <<60>>
            /\ \A k \in 1..Len(out) :
                  LET goals == out[k].match.score_home + out[k].match.score_away
                      capped == IF goals < 10 THEN goals ELSE 10
                      bonus == SelectSeq(out[k].rank.contributions,
                                         LAMBDA c : c.reason = "total_goals_bonus")
                  IN  /\ goals = 0 => bonus = <<>>
                      /\ goals > 0 => Len(bonus) = 1 /\ bonus[1].weight * 10 = capped * 200
                      /\ goals >= 10 => bonus[1].weight = 200

\* The mock's two matches were scored, given in the order m2, m1.
C23_Witness ==
    /\ Evaluated("score_matches")
    /\ eval.args.matches = <<MockMatch2(0), MockMatch1(0)>>
    /\ eval.args.player_stats = MockStats /\ eval.args.rules = MockRules
    /\ IdsOf(eval.value) = <<"m1", "m2">>

\* A match of eleven goals was scored: its total-goals bonus is 0.2.
C23_WitnessCapped ==
    /\ Evaluated("score_matches")
    /\ \E k \in 1..Len(eval.value) :
          /\ eval.value[k].match.score_home + eval.value[k].match.score_away = 11
          /\ eval.value[k].rank.contributions[Len(eval.value[k].rank.contributions)].weight = 200

\* The rules with the unknown kinds left out and the malformed weights as zero.
Sanitized(rules) ==
    LET known == SelectSeq(rules, LAMBDA r :
                     NormalizeEntityType(r.entity_type) \in {"player", "team"})
    IN  [i \in 1..Len(known) |->
            IF FloatRaises(known[i].weight)
            THEN [known[i] EXCEPT !.weight = FloatWeight(0)] ELSE known[i]]

\* C24: score_matches always returns a ranking of all the matches: a rule with
\* a malformed weight counts as a weight of zero, and a rule of an unknown kind
\* is ignored.
C24_ScorerNeverFails ==
    Evaluated("score_matches") =>
        /\ eval.value # Raised
        /\ Len(eval.value) = Len(eval.args.matches)
        /\ eval.value = score_matches(eval.args.matches, eval.args.player_stats,
                                      Sanitized(eval.args.rules))

\* score_matches was called with a team rule whose weight is "abc", and raised.
C24_MalformedWeightRaises ==
    /\ Evaluated("score_matches")
    /\ eval.args.rules = <<ScoringRule("team", "TOR", TextWeight("abc"), "")>>
    /\ eval.value = Raised

\* A rule of an unknown kind is ignored, whatever its weight: the call ends as
\* it does without the rule.
C24_UnknownKindIgnored ==
    Evaluated("score_matches") =>
        LET known == SelectSeq(eval.args.rules, LAMBDA r :
                         NormalizeEntityType(r.entity_type) \in {"player", "team"})
        IN  eval.value = score_matches(eval.args.matches, eval.args.player_stats, known)

\* The post an execution on the full path rendered and published: the one
\* build_post_public made of the errors known before the publish call.
PublishedPost(p) ==
    LET f == frame[p]
    IN  build_post_public(f.run_date_msk, f.now_utc, f.ranked, f.video_res, f.cfg,
                          CallErrors(SubSeq(calls[p], 1, PublishAt(calls[p]) - 1)))

\* C25: on the full path no error is lost between publishing and returning.
\* Every error of the post that was rendered and published, the embedded
\* errors of the video-link results among them, is in the returned post's
\* error list and in the returned error list.
C25_PublishedErrorsReturned ==
    \A p \in Procs :
        (ReturnedPost(p) /\ Ops(calls[p]) = FullPath) =>
            /\ frame[p].text = render_post(PublishedPost(p))
            /\ Range(PublishedPost(p).errors) \subseteq Range(frame[p].ret.post.errors)
            /\ Range(PublishedPost(p).errors) \subseteq Range(frame[p].ret.errors)

\* The published text lists the embedded error of a video-link result, and
\* neither the returned post nor the returned error list has it.
C25_EmbeddedErrorLost ==
    \E p \in Procs :
        /\ ReturnedPost(p) /\ Ops(calls[p]) = FullPath
        /\ ErrVideoLink \in Range(PublishedPost(p).errors)
        /\ ErrorLine(ErrVideoLink) \in Range(SummaryOf(calls[p][PublishAt(calls[p])].arg))
        /\ ErrVideoLink \notin Range(frame[p].ret.post.errors)
        /\ ErrVideoLink \notin Range(frame[p].ret.errors)

\* The results loader returned matches and every one scored below the threshold.
AllBelowThreshold(f) ==
    /\ f.matches # <<>>
    /\ Len(f.ranked) = Len(f.matches)
    /\ \A i \in 1..Len(f.ranked) : f.ranked[i].rank.score < f.cfg.min_interest_score

\* C26: an execution whose matches all score below min_interest_score takes
\* the full path: it calls the rules loader and the video loader, the latter
\* with no identifiers, publishes once the text of the post without items -
\* the no-matches line, followed by the errors known so far if any - and
\* hands set_published a published record for the run date, which closes the
\* gate for a later execution as the zero-matches path does.
C26_AllBelowThresholdStillPublishes ==
    \A p \in Procs :
        (ReturnedPost(p) /\ AllBelowThreshold(frame[p])) =>
            LET f == frame[p]
                errs_before == CallErrors(SubSeq(calls[p], 1, 4))
            IN  /\ Ops(calls[p]) = FullPath
                /\ calls[p][4].arg = <<>>
                /\ f.ret.post.items = <<>>
                /\ calls[p][5].arg =
                     render_post(PostPublic(f.run_date_msk, f.now_utc, <<>>, errs_before))
                /\ calls[p][5].arg[1] = NoMatchesLine
                /\ errs_before = <<>> => calls[p][5].arg = <<NoMatchesLine>>
                /\ Count(calls[p], LAMBDA c : c.op = "publisher.publish") = 1
                /\ publishCalls[f.run_date_msk] = 1
                /\ calls[p][6].arg.run_date_msk = f.run_date_msk
                /\ calls[p][6].arg.published
                /\ store[f.run_date_msk] = calls[p][6].arg
                /\ AlreadyGate(store[f.run_date_msk])

\* The only match of the night scored 0.06 against a threshold of 1.0 and the
\* execution returned, having published the no-matches line alone.
C26_Witness ==
    \E p \in Procs :
        /\ ReturnedPost(p) /\ AllBelowThreshold(frame[p])
        /\ Len(frame[p].ranked) = 1
        /\ frame[p].ranked[1].rank.score = 60
        /\ frame[p].cfg.min_interest_score = 1000
        /\ calls[p][5].arg = <<NoMatchesLine>>

=============================================================================
